---- MODULE Spec2Model ----
(***************************************************************************)
(* urnparse: RFC 8141 URN parsing, validation and serialisation.           *)
(*                                                                         *)
(* A Python str is modelled as a sequence of Unicode code points           *)
(* (naturals); Ord("x") gives the code point of a printable ASCII          *)
(* character, so the literals of the source stay readable.  An exception   *)
(* raised by an operation is modelled as the value [error |-> <its class>] *)
(* returned in place of the result, and propagated by every caller.        *)
(***************************************************************************)
EXTENDS Integers, Sequences, FiniteSets, TLC

VARIABLES
    nid_raw,      \* argument of the last NSIdentifier(val) call
    nid,          \* its outcome: an NSIdentifier object or an error
    nss_raw,      \* argument of the last NSSString(val, encoded) call
    nss_encoded,  \* the encoded flag of that call
    nss,          \* its outcome: an NSSString object or an error
    rqf_args,     \* arguments of the last RQFComponent(r, q, f) call
    rqf,          \* the RQFComponent it built
    urn_string,   \* argument of the last URN8141.from_string call
    encoded,      \* the encoded flag of that call
    urn,          \* its outcome: a URN8141 object or an error
    other_string, \* the string a second URN8141 object was parsed from
    other         \* that second URN8141 object, the right operand of ==

vars == <<nid_raw, nid, nss_raw, nss_encoded, nss, rqf_args, rqf,
          urn_string, encoded, urn, other_string, other>>

----------------------------------------------------------------------------
(* Characters and the str / bytes primitives of Python the code relies on. *)

\* Printable ASCII, code points 32 .. 126, in order (the three characters a
\* TLA+ string cannot hold plainly are named).
Ascii ==
    <<" ", "!", "QUOTATION MARK", "#", "$", "%", "&", "'", "(", ")", "*", "+", ",", "-",
      ".", "/", "0", "1", "2", "3", "4", "5", "6", "7", "8", "9", ":", ";",
      "<", "=", ">", "?", "@", "A", "B", "C", "D", "E", "F", "G", "H", "I",
      "J", "K", "L", "M", "N", "O", "P", "Q", "R", "S", "T", "U", "V", "W",
      "X", "Y", "Z", "[", "REVERSE SOLIDUS", "]", "^", "_", "GRAVE ACCENT", "a", "b", "c", "d", "e",
      "f", "g", "h", "i", "j", "k", "l", "m", "n", "o", "p", "q", "r", "s",
      "t", "u", "v", "w", "x", "y", "z", "{", "|", "}", "~">>

\* ord(ch) of a printable ASCII character.
Ord(ch) == 31 + (CHOOSE i \in 1..Len(Ascii) : Ascii[i] = ch)

\* A str literal, written as the tuple of its characters.
Str(chars) == [i \in 1..Len(chars) |-> Ord(chars[i])]

Newline    == 10      \* '\n'
KelvinSign == 8490    \* U+212A, which lower-cases to 'k'
ReplChar   == 65533   \* U+FFFD, what errors='replace' puts for bad bytes

Colon    == Ord(":")
Hash     == Ord("#")
QMark    == Ord("?")
Plus     == Ord("+")
Equals   == Ord("=")
Amp      == Ord("&")
Percent  == Ord("%")
Slash    == Ord("/")
Hyphen   == Ord("-")
Space    == Ord(" ")

\* The value None.  -1 is no code point, so None is no str.
None == <<-1>>

\* s[i:j] with 0 <= i, 0 <= j (Python clamps both to len(s)).
Slice(s, i, j) ==
    LET hi == IF j > Len(s) THEN Len(s) ELSE j
    IN  IF i >= hi THEN <<>> ELSE SubSeq(s, i + 1, hi)

\* s[i:]
SliceFrom(s, i) == Slice(s, i, Len(s))

\* s.startswith(prefix)
StartsWith(s, prefix) ==
    Len(prefix) <= Len(s) /\ SubSeq(s, 1, Len(prefix)) = prefix

\* s.count(ch) for a one-character ch
Count(s, ch) == Cardinality({i \in 1..Len(s) : s[i] = ch})

\* s.find(ch) for a one-character ch, 0-based; len(s) when absent
FindOrEnd(s, ch) ==
    IF \E i \in 1..Len(s) : s[i] = ch
    THEN (CHOOSE i \in 1..Len(s) : s[i] = ch /\ \A k \in 1..(i - 1) : s[k] # ch) - 1
    ELSE Len(s)

\* s.split(ch) for a one-character ch: the list of the pieces
RECURSIVE Split(_, _)
Split(s, ch) ==
    LET i == FindOrEnd(s, ch)
    IN  IF i = Len(s) THEN <<s>>
        ELSE <<Slice(s, 0, i)>> \o Split(SliceFrom(s, i + 1), ch)

\* s.split(ch, 1): at most one split
Split1(s, ch) ==
    LET i == FindOrEnd(s, ch)
    IN  IF i = Len(s) THEN <<s>>
        ELSE <<Slice(s, 0, i), SliceFrom(s, i + 1)>>

\* s.rfind(sub), 0-based; -1 when absent
RFind(s, sub) ==
    LET hits == {i \in 0..(Len(s) - Len(sub)) :
                    \A k \in 1..Len(sub) : s[i + k] = sub[k]}
    IN  IF hits = {} THEN -1 ELSE CHOOSE i \in hits : \A k \in hits : k <= i

\* s.rstrip(ch) for a one-character ch
RECURSIVE RStrip(_, _)
RStrip(s, ch) ==
    IF s # <<>> /\ s[Len(s)] = ch THEN RStrip(SubSeq(s, 1, Len(s) - 1), ch) ELSE s

\* s.replace(a, b) for one-character a and b
Replace(s, a, b) == [i \in 1..Len(s) |-> IF s[i] = a THEN b ELSE s[i]]

\* sep.join(parts)
RECURSIVE Join(_, _)
Join(parts, sep) ==
    IF parts = <<>> THEN <<>>
    ELSE IF Len(parts) = 1 THEN parts[1]
    ELSE parts[1] \o sep \o Join(Tail(parts), sep)

\* The outcome of an operation that raised.
Raise(class) == [error |-> class]
IsError(x) == DOMAIN x = {"error"}

----------------------------------------------------------------------------
(* Character classes of the regular expressions.  Under re.IGNORECASE a    *)
(* range of ASCII letters in a str pattern also matches the non-ASCII      *)
(* characters whose case folding is an ASCII letter: U+0130, U+0131,       *)
(* U+017F and U+212A for [a-z], none for [a-f].                            *)

Digits       == Ord("0")..Ord("9")
AsciiLetters == (Ord("a")..Ord("z")) \cup (Ord("A")..Ord("Z"))
HexLetters   == (Ord("a")..Ord("f")) \cup (Ord("A")..Ord("F"))
FoldToLetter == {304, 305, 383, KelvinSign}

IsDigit(c)      == c \in Digits
IsAsciiAlpha(c) == c \in AsciiLetters
IsAlphaIC(c)    == c \in AsciiLetters \/ c \in FoldToLetter
IsHexDigit(c)   == c \in Digits \/ c \in HexLetters

\* Where a pattern's final $ can match at 0-based position i of s: at the
\* end of s, and just before a newline that is the last character of s.
AtDollar(s, i) ==
    i = Len(s) \/ (i = Len(s) - 1 /\ s[Len(s)] = Newline)

----------------------------------------------------------------------------
(* urllib.parse.quote and unquote, with the UTF-8 codec they call.         *)

\* ch.encode('utf-8') for one code point: its 1 to 4 bytes.
Utf8Encode(cp) ==
    IF cp < 128 THEN <<cp>>
    ELSE IF cp < 2048 THEN <<192 + (cp \div 64), 128 + (cp % 64)>>
    ELSE IF cp < 65536
      THEN <<224 + (cp \div 4096), 128 + ((cp \div 64) % 64), 128 + (cp % 64)>>
    ELSE <<240 + (cp \div 262144), 128 + ((cp \div 4096) % 64),
           128 + ((cp \div 64) % 64), 128 + (cp % 64)>>

\* An item of a partly decoded str: a byte 0..255, or Raw(cp) for a
\* non-ASCII character of the input, which unquote passes through.
Raw(cp) == 256 + cp
IsRaw(x) == x >= 256

IsCont(x) == x \in 128..191
Second3OK(b, x) ==
    IsCont(x) /\ ~(b = 224 /\ x < 160) /\ ~(b = 237 /\ x >= 160)
Second4OK(b, x) ==
    IsCont(x) /\ ~(b = 240 /\ x < 144) /\ ~(b = 244 /\ x >= 144)

\* bytes.decode('utf-8', 'replace') of each run of bytes between the raw
\* characters: every maximal ill-formed prefix becomes one U+FFFD.
RECURSIVE Utf8Decode(_)
Utf8Decode(bs) ==
    IF bs = <<>> THEN <<>>
    ELSE
      LET b == bs[1]
          n == Len(bs)
          Rest(k) == Utf8Decode(SubSeq(bs, k + 1, n))
      IN  IF IsRaw(b) THEN <<b - 256>> \o Rest(1)
          ELSE IF b < 128 THEN <<b>> \o Rest(1)
          ELSE IF b \in 194..223 THEN
            IF n >= 2 /\ IsCont(bs[2])
            THEN <<(b - 192) * 64 + (bs[2] - 128)>> \o Rest(2)
            ELSE <<ReplChar>> \o Rest(1)
          ELSE IF b \in 224..239 THEN
            IF n >= 2 /\ Second3OK(b, bs[2]) THEN
              IF n >= 3 /\ IsCont(bs[3])
              THEN <<(b - 224) * 4096 + (bs[2] - 128) * 64 + (bs[3] - 128)>>
                   \o Rest(3)
              ELSE <<ReplChar>> \o Rest(2)
            ELSE <<ReplChar>> \o Rest(1)
          ELSE IF b \in 240..244 THEN
            IF n >= 2 /\ Second4OK(b, bs[2]) THEN
              IF n >= 3 /\ IsCont(bs[3]) THEN
                IF n >= 4 /\ IsCont(bs[4])
                THEN <<(b - 240) * 262144 + (bs[2] - 128) * 4096
                       + (bs[3] - 128) * 64 + (bs[4] - 128)>> \o Rest(4)
                ELSE <<ReplChar>> \o Rest(3)
              ELSE <<ReplChar>> \o Rest(2)
            ELSE <<ReplChar>> \o Rest(1)
          ELSE <<ReplChar>> \o Rest(1)

HexDigits == Str(<<"0", "1", "2", "3", "4", "5", "6", "7", "8", "9",
                   "A", "B", "C", "D", "E", "F">>)

\* int(c, 16) of one hexadecimal digit, either case
Digit0 == Ord("0")
LowerA == Ord("a")
UpperA == Ord("A")
HexValue(c) ==
    IF IsDigit(c) THEN c - Digit0
    ELSE IF c >= LowerA THEN c - LowerA + 10
    ELSE c - UpperA + 10

\* '%{:02X}'.format(b)
PercentByte(b) == <<Percent, HexDigits[(b \div 16) + 1], HexDigits[(b % 16) + 1]>>

\* The characters quote never escapes: letters, digits and "_.-~".
Unreserved == {Ord("_"), Ord("."), Ord("-"), Ord("~")}
AlwaysSafe(c) == IsAsciiAlpha(c) \/ IsDigit(c) \/ c \in Unreserved

RECURSIVE QuoteBytes(_, _)
QuoteBytes(bs, safe) ==
    IF bs = <<>> THEN <<>>
    ELSE (IF AlwaysSafe(bs[1]) \/ bs[1] \in safe
          THEN <<bs[1]>> ELSE PercentByte(bs[1]))
         \o QuoteBytes(Tail(bs), safe)

\* urllib.parse.quote(string, safe): safe is the set of extra safe characters.
RECURSIVE quote(_, _)
quote(string, safe) ==
    IF string = <<>> THEN <<>>
    ELSE QuoteBytes(Utf8Encode(string[1]), safe) \o quote(Tail(string), safe)

\* The scan of unquote_to_bytes: %XX with two hexadecimal digits is one
\* byte, any other '%' stays; a non-ASCII character is passed through.
RECURSIVE PercentDecode(_)
PercentDecode(s) ==
    IF s = <<>> THEN <<>>
    ELSE IF s[1] >= 128 THEN <<Raw(s[1])>> \o PercentDecode(Tail(s))
    ELSE IF s[1] = Percent /\ Len(s) >= 3 /\ IsHexDigit(s[2]) /\ IsHexDigit(s[3])
      THEN <<16 * HexValue(s[2]) + HexValue(s[3])>>
           \o PercentDecode(SubSeq(s, 4, Len(s)))
    ELSE <<s[1]>> \o PercentDecode(Tail(s))

\* urllib.parse.unquote(string), encoding='utf-8', errors='replace'
unquote(string) == Utf8Decode(PercentDecode(string))

----------------------------------------------------------------------------
(* NSIdentifier                                                            *)

\* re.match(NID_PATTERN, value): ^[0-9a-z][0-9a-z-]{1,31}$ with IGNORECASE
NID_PATTERN(value) ==
    \E n \in 2..32 :
        /\ n <= Len(value)
        /\ AtDollar(value, n)
        /\ IsDigit(value[1]) \/ IsAlphaIC(value[1])
        /\ \A i \in 2..n :
              IsDigit(value[i]) \/ IsAlphaIC(value[i]) \/ value[i] = Hyphen

Returned(x) == [returned |-> x]

\* _validate_nid(value, min_len, max_len, pattern); matched stands for
\* re.match(pattern, value), which the code evaluates after the lengths.
validate_nid(value, min_len, max_len, matched) ==
    LET strlen == Len(value)
    IN  IF strlen < min_len THEN Raise("InvalidURNFormatError")
        ELSE IF strlen > max_len THEN Raise("InvalidURNFormatError")
        ELSE IF ~matched THEN Raise("InvalidURNFormatError")
        ELSE Returned(None)

MIN_LENGTH == 2
MAX_LENGTH == 32

\* NSIdentifier(val): the object, or the error its __init__ raises
NSIdentifier(val) ==
    LET checked == validate_nid(val, MIN_LENGTH, MAX_LENGTH, NID_PATTERN(val))
    IN  IF IsError(checked) THEN checked ELSE [value |-> val]

\* str(nid)
NSIdentifier_repr(self) == self.value

\* nid == other, for another NSIdentifier
NSIdentifier_eq(self, o) == self.value = o.value

----------------------------------------------------------------------------
(* NSSString                                                               *)

SubDelims ==
    {Ord("!"), Ord("$"), Amp, Ord("'"), Ord("("), Ord(")"), Ord("*"), Plus,
     Ord(","), Ord(";"), Equals}
AtSign == Ord("@")

\* The length NSS_PCHAR matches at 0-based position i of s, 0 for no match:
\* [a-z0-9-._~] | %[a-f0-9]{2} | [!$&'()*+,;=] | : | @   (IGNORECASE)
NSS_PCHAR(s, i) ==
    IF i >= Len(s) THEN 0
    ELSE
      LET c == s[i + 1]
      IN  IF \/ IsAlphaIC(c) \/ IsDigit(c) \/ c \in Unreserved
             \/ c \in SubDelims
             \/ c = Colon \/ c = AtSign
          THEN 1
          ELSE IF c = Percent /\ i + 3 <= Len(s)
                  /\ IsHexDigit(s[i + 2]) /\ IsHexDigit(s[i + 3])
          THEN 3
          ELSE 0

\* Whether ({NSS_PCHAR}|/|\?)*$ matches s from 0-based position i.
RECURSIVE NSSTail(_, _)
NSSTail(s, i) ==
    \/ AtDollar(s, i)
    \/ /\ i < Len(s)
       /\ \/ NSS_PCHAR(s, i) > 0 /\ NSSTail(s, i + NSS_PCHAR(s, i))
          \/ s[i + 1] \in {Slash, QMark} /\ NSSTail(s, i + 1)

\* re.match(NSS_PATTERN, val): ^({NSS_PCHAR})({NSS_PCHAR}|/|\?)*$
NSS_PATTERN(val) ==
    NSS_PCHAR(val, 0) > 0 /\ NSSTail(val, NSS_PCHAR(val, 0))

\* NSSString with '%' passed to quote as a safe character.
NSSString_percent_safe(val, enc) ==
    IF enc
    THEN IF Len(val) = 0 \/ ~NSS_PATTERN(val)
         THEN Raise("InvalidURNFormatError")
         ELSE [encoded |-> val, value |-> unquote(val)]
    ELSE [encoded |-> quote(val, {Slash, Percent}), value |-> val]

\* NSSString(val, encoded): the object, or the error its __init__ raises
NSSString(val, enc) ==
    IF enc
    THEN IF Len(val) = 0 \/ ~NSS_PATTERN(val)
         THEN Raise("InvalidURNFormatError")
         ELSE [encoded |-> val, value |-> unquote(val)]
    ELSE [encoded |-> quote(val, {Slash}), value |-> val]

\* nss.decoded
NSSString_decoded(self) == self.value

\* nss.parts
NSSString_parts(self) == Split(self.value, Colon)

\* str(nss)
NSSString_repr(self) == self.encoded

\* nss == other, for another NSSString
NSSString_eq(self, o) == self.encoded = o.encoded

----------------------------------------------------------------------------
(* urllib.parse.parse_qs and urlencode.  A dict is modelled as the         *)
(* sequence of its <<key, value>> items in insertion order, keys distinct; *)
(* the empty list [] and the empty dict {} are both <<>>.                  *)

\* The fields of parse_qsl that yield a pair: non-empty, holding '=', with
\* a non-blank value (keep_blank_values and strict_parsing are False).
RECURSIVE DecodeFields(_)
DecodeFields(fields) ==
    IF fields = <<>> THEN <<>>
    ELSE
      LET nv == Split1(fields[1], Equals)
      IN  (IF fields[1] # <<>> /\ Len(nv) = 2 /\ Len(nv[2]) > 0
           THEN << <<unquote(Replace(nv[1], Plus, Space)),
                     unquote(Replace(nv[2], Plus, Space))>> >>
           ELSE <<>>)
          \o DecodeFields(Tail(fields))

\* urllib.parse.parse_qsl(qs); a falsy qs (None, '') gives no pair.
parse_qsl(qs) ==
    IF qs = None \/ qs = <<>> THEN <<>> ELSE DecodeFields(Split(qs, Amp))

\* {k: v[0] for k, v in parse_qs(qs).items()}: each key once, at the place
\* of its first occurrence and with the value of its first occurrence.
RECURSIVE FirstValues(_, _)
FirstValues(pairs, seen) ==
    IF pairs = <<>> THEN <<>>
    ELSE IF pairs[1][1] \in seen THEN FirstValues(Tail(pairs), seen)
    ELSE <<pairs[1]>> \o FirstValues(Tail(pairs), seen \cup {pairs[1][1]})

parse_qs_first(qs) == FirstValues(parse_qsl(qs), {})

RECURSIVE EncodeItems(_)
EncodeItems(items) ==
    IF items = <<>> THEN <<>>
    ELSE <<quote(items[1][1], {}) \o <<Equals>> \o quote(items[1][2], {})>>
         \o EncodeItems(Tail(items))

\* urllib.parse.urlencode(d, quote_via=quote): safe is '' here.
urlencode(d) == Join(EncodeItems(d), <<Amp>>)

----------------------------------------------------------------------------
(* RQFComponent                                                            *)

RESOLUTION_SEPERATOR == <<QMark, Plus>>
QUERY_SEPERATOR      == <<QMark, Equals>>
FRAGMENT_SEPERATOR   == <<Hash>>

\* RQFComponent(resolution_string, query_string, fragment)
RQFComponent(resolution_string, query_string, fragment) ==
    [resolution |-> IF resolution_string # <<>>
                    THEN parse_qs_first(resolution_string) ELSE <<>>,
     query      |-> IF query_string # <<>>
                    THEN parse_qs_first(query_string) ELSE <<>>,
     fragment   |-> fragment]

\* len(x): None has no len()
PyLen(x) == IF x = None THEN Raise("TypeError") ELSE Returned(Len(x))

\* rqf.__empty__(): len(resolution) == len(query) == len(fragment) == 0,
\* a chained comparison that stops at its first false link.
RQFComponent_empty(self) ==
    IF Len(self.resolution) # Len(self.query) THEN Returned(FALSE)
    ELSE
      LET n == PyLen(self.fragment)
      IN  IF IsError(n) THEN n
          ELSE Returned(Len(self.query) = n.returned /\ n.returned = 0)

\* str(rqf)
RQFComponent_repr(self) ==
    (IF Len(self.resolution) # 0
     THEN RESOLUTION_SEPERATOR \o urlencode(self.resolution) ELSE <<>>)
    \o (IF Len(self.query) # 0
        THEN QUERY_SEPERATOR \o urlencode(self.query) ELSE <<>>)
    \o (IF self.fragment # None /\ self.fragment # <<>>
        THEN FRAGMENT_SEPERATOR \o self.fragment ELSE <<>>)

\* rqf == other
RQFComponent_eq(self, o) == RQFComponent_repr(self) = RQFComponent_repr(o)

----------------------------------------------------------------------------
(* RQF_PATTERN:                                                            *)
(*   ^(?!$)(?:\?\+(?P<resolution_string>.*?))?(?:\?=(?P<query_string>.*?))? *)
(*    (?:#(?P<fragment>.*?))?$                                             *)
(* Each optional group is tried present first; each lazy .*? takes the     *)
(* fewest characters, none of them a newline, that let the rest match.     *)

\* No newline among the characters of s at 0-based positions i .. j-1.
NoNewline(s, i, j) == \A k \in (i + 1)..j : s[k] # Newline

Least(S) == CHOOSE j \in S : \A k \in S : j <= k

\* (?:#(?P<fragment>.*?))?$ from 0-based position i
MatchFragment(s, i) ==
    LET ends == {j \in (i + 1)..Len(s) : NoNewline(s, i + 1, j) /\ AtDollar(s, j)}
    IN  IF StartsWith(SliceFrom(s, i), FRAGMENT_SEPERATOR) /\ ends # {}
        THEN [matched |-> TRUE, fragment |-> Slice(s, i + 1, Least(ends))]
        ELSE [matched |-> AtDollar(s, i), fragment |-> None]

\* (?:\?=(?P<query_string>.*?))? and what follows, from position i
MatchQuery(s, i) ==
    LET ends == {j \in (i + 2)..Len(s) :
                    NoNewline(s, i + 2, j) /\ MatchFragment(s, j).matched}
    IN  IF StartsWith(SliceFrom(s, i), QUERY_SEPERATOR) /\ ends # {}
        THEN [matched |-> TRUE,
              query_string |-> Slice(s, i + 2, Least(ends)),
              fragment |-> MatchFragment(s, Least(ends)).fragment]
        ELSE [matched |-> MatchFragment(s, i).matched,
              query_string |-> None,
              fragment |-> MatchFragment(s, i).fragment]

\* re.match(RQF_PATTERN, s): the groupdict of the match, or no match
RQF_PATTERN(s) ==
    LET ends == {j \in 2..Len(s) : NoNewline(s, 2, j) /\ MatchQuery(s, j).matched}
        rest == IF StartsWith(s, RESOLUTION_SEPERATOR) /\ ends # {}
                THEN MatchQuery(s, Least(ends)) ELSE MatchQuery(s, 0)
    IN  IF AtDollar(s, 0) THEN [matched |-> FALSE]
        ELSE IF ~rest.matched THEN [matched |-> FALSE]
        ELSE [matched |-> TRUE,
              resolution_string |->
                  IF StartsWith(s, RESOLUTION_SEPERATOR) /\ ends # {}
                  THEN Slice(s, 2, Least(ends)) ELSE None,
              query_string |-> rest.query_string,
              fragment |-> rest.fragment]

----------------------------------------------------------------------------
(* URN8141                                                                 *)

URN_SCHEME == Str(<<"u", "r", "n">>)

\* _get_nss_indices with 0 <= index in place of 0 < index.
get_nss_indices_from_zero(specific_part) ==
    LET rsi  == RFind(specific_part, RESOLUTION_SEPERATOR)
        qsi  == RFind(specific_part, QUERY_SEPERATOR)
        fsi  == RFind(specific_part, FRAGMENT_SEPERATOR)
        eof0 == Len(specific_part)
        eof1 == IF 0 <= rsi /\ rsi < eof0 THEN rsi ELSE eof0
        eof2 == IF 0 <= qsi /\ qsi < eof1 THEN qsi ELSE eof1
        eof3 == IF 0 <= fsi /\ fsi < eof2 THEN fsi ELSE eof2
    IN  <<rsi, qsi, fsi, eof3>>

\* URN8141._get_nss_indices(specific_part): <<rsi, qsi, fsi, eof>>
get_nss_indices(specific_part) ==
    LET rsi  == RFind(specific_part, RESOLUTION_SEPERATOR)
        qsi  == RFind(specific_part, QUERY_SEPERATOR)
        fsi  == RFind(specific_part, FRAGMENT_SEPERATOR)
        eof0 == Len(specific_part)
        eof1 == IF 0 < rsi /\ rsi < eof0 THEN rsi ELSE eof0
        eof2 == IF 0 < qsi /\ qsi < eof1 THEN qsi ELSE eof1
        eof3 == IF 0 < fsi /\ fsi < eof2 THEN fsi ELSE eof2
    IN  <<rsi, qsi, fsi, eof3>>

\* _parse_rqf_component raising when the pattern does not match.
parse_rqf_component_strict(rqf_string) ==
    IF rqf_string = <<>> THEN RQFComponent(<<>>, <<>>, <<>>)
    ELSE
      LET matched == RQF_PATTERN(rqf_string)
      IN  IF ~matched.matched THEN Raise("InvalidURNFormatError")
          ELSE RQFComponent(matched.resolution_string, matched.query_string,
                            matched.fragment)

\* URN8141._parse_rqf_component(rqf_string)
parse_rqf_component(rqf_string) ==
    IF rqf_string = <<>> THEN RQFComponent(<<>>, <<>>, <<>>)
    ELSE
      LET matched == RQF_PATTERN(rqf_string)
      IN  IF ~matched.matched THEN RQFComponent(<<>>, <<>>, <<>>)
          ELSE RQFComponent(matched.resolution_string, matched.query_string,
                            matched.fragment)

\* The NID that from_string extracts: urn_string.split(':')[1]
ExtractNid(text) == Split(text, Colon)[2]

\* The specific part that from_string extracts:
\* urn_string[(len(URN_SCHEME) + len(nid) + 2):].rstrip('#')
ExtractSpecificPart(text) ==
    RStrip(SliceFrom(text,
                     Len(URN_SCHEME) + Len(ExtractNid(text)) + 2),
           Hash)

\* The scheme check of from_string
SchemeCheck(text) ==
    StartsWith(text, URN_SCHEME) /\ Count(text, Colon) >= 2

\* URN8141.from_string(urn_string, encoded): the URN8141, or the error raised
from_string(text, enc) ==
    IF ~SchemeCheck(text) THEN Raise("InvalidURNFormatError")
    ELSE
      LET specific_part == ExtractSpecificPart(text)
          eof_nss == get_nss_indices(specific_part)[4]
          r == parse_rqf_component(SliceFrom(specific_part, eof_nss))
          n == NSIdentifier(ExtractNid(text))
          s == NSSString(Slice(specific_part, 0, eof_nss), enc)
      IN  IF IsError(r) THEN r
          ELSE IF IsError(n) THEN n
          ELSE IF IsError(s) THEN s
          ELSE [nid |-> n, nss |-> s, rqf |-> r]

\* str(urn) without the RQF component.
URN8141_repr_no_rqf(self) ==
    Str(<<"u", "r", "n", ":">>) \o NSIdentifier_repr(self.nid) \o <<Colon>>
    \o NSSString_repr(self.nss)

\* str(urn): f'urn:{self._nid}:{self._nss}{self._rqf}'
URN8141_repr(self) ==
    Str(<<"u", "r", "n", ":">>) \o NSIdentifier_repr(self.nid) \o <<Colon>>
    \o NSSString_repr(self.nss) \o RQFComponent_repr(self.rqf)

\* urn == other comparing the RQF components too.
URN8141_eq_with_rqf(self, o) ==
    /\ NSIdentifier_eq(self.nid, o.nid) /\ NSSString_eq(self.nss, o.nss)
    /\ RQFComponent_eq(self.rqf, o.rqf)

\* urn == other, for another URN8141
URN8141_eq(self, o) ==
    NSIdentifier_eq(self.nid, o.nid) /\ NSSString_eq(self.nss, o.nss)

----------------------------------------------------------------------------
(* Inputs.  A string is drawn as a concatenation of a few tokens, so that  *)
(* the separators, key=value fields and escapes the code looks for occur   *)
(* within a short bound.                                                   *)

MaxNidTail   == 3   \* characters after the padding of an NID input
MaxNssLen    == 3   \* characters of an NSS input
MaxQsTokens  == 2   \* tokens of a resolution or query string
MaxRqfTokens == 2   \* tokens after 'urn:ab:a' of a parsed RQF input
MaxUrnTokens == 4   \* tokens after 'urn:ab:' of a URN input
MaxHeadTokens == 2  \* tokens after any other head, or of a decoded input
MaxEqTokens  == 3   \* tokens after the head of the operands of ==

SeqsUpTo(A, n) == UNION {[1..k -> A] : k \in 0..n}

RECURSIVE Flatten(_)
Flatten(parts) == IF parts = <<>> THEN <<>> ELSE parts[1] \o Flatten(Tail(parts))

\* The strings made of at most n tokens.
Tokens(T, n) == {Flatten(ts) : ts \in SeqsUpTo(T, n)}

Repeat(c, n) == [i \in 1..n |-> c]

NidAlphabet ==
    {Ord("a"), Ord("Z"), Ord("0"), Hyphen, Slash, Newline, KelvinSign}
NidPads == {0, 29, 30}
NidInputs ==
    {Repeat(Ord("a"), k) \o t : k \in NidPads, t \in SeqsUpTo(NidAlphabet, MaxNidTail)}

NssAlphabet ==
    {Ord("a"), Percent, Ord("2"), Ord("F"), Slash, QMark, Colon, Hash, Space,
     Newline, KelvinSign, 233}
NssInputs == SeqsUpTo(NssAlphabet, MaxNssLen)

QsTokens ==
    {Str(<<"a", "=", "b">>), Str(<<"a", "=">>), Str(<<"c", "=", "+">>),
     <<Amp>>, <<Equals>>, Str(<<"%", "2", "F">>)}
QsInputs == Tokens(QsTokens, MaxQsTokens)
FragmentInputs == {<<>>, Str(<<"a">>), Str(<<"a", "#">>)}

RqfTokens ==
    {RESOLUTION_SEPERATOR, QUERY_SEPERATOR, FRAGMENT_SEPERATOR,
     Str(<<"a", "=", "b">>), Str(<<"a">>)}
RqfUrnInputs ==
    {Str(<<"u", "r", "n", ":", "a", "b", ":", "a">>) \o t :
        t \in Tokens(RqfTokens, MaxRqfTokens)}

UrnTokens ==
    {Str(<<"a">>), <<Colon>>, <<QMark>>, RESOLUTION_SEPERATOR, QUERY_SEPERATOR,
     FRAGMENT_SEPERATOR, Str(<<"a", "=", "b">>), <<Plus>>, <<Newline>>,
     Str(<<"%", "2", "F">>)}
UrnHeads ==
    {Str(<<"u", "r", "n">>), Str(<<"u", "r", "n", ":", "a", ":">>),
     Str(<<"u", "r", "i", ":", "a", "b", ":">>),
     Str(<<"u", "r", "n", "x", "x", ":", "a", "b", ":">>),
     Str(<<"u", "r", "n", ":", "a", "/", ":">>)}
UrnInputs ==
    {Str(<<"u", "r", "n", ":", "a", "b", ":">>) \o t :
        t \in Tokens(UrnTokens, MaxUrnTokens)}
    \cup {h \o t : h \in UrnHeads, t \in Tokens(UrnTokens, MaxHeadTokens)}

DecodedUrnInputs ==
    {h \o t : h \in UrnHeads \cup {Str(<<"u", "r", "n", ":", "a", "b", ":">>)},
              t \in Tokens(UrnTokens, MaxHeadTokens)}

EqTokens == {Str(<<"a">>), <<QMark>>, QUERY_SEPERATOR, FRAGMENT_SEPERATOR}
EqHeads ==
    {Str(<<"u", "r", "n", ":", "a", "b", ":">>),
     Str(<<"u", "r", "n", ":", "a", "B", ":">>)}
EqInputs == {h \o t : h \in EqHeads, t \in Tokens(EqTokens, MaxEqTokens)}

----------------------------------------------------------------------------
(* The state machine: the library has no state of its own; the state is    *)
(* the last call of each constructor and the object or error it gave.      *)
(* Each behaviour is one use of the library: a constructor is called once, *)
(* on one of the inputs, and the calls that follow work on its outcome.    *)

\* No call made yet.
Nothing == [nothing |-> TRUE]

Init ==
    /\ nid_raw = <<>> /\ nid = Nothing
    /\ nss_raw = <<>> /\ nss_encoded = TRUE /\ nss = Nothing
    /\ rqf_args = <<>> /\ rqf = Nothing
    /\ urn_string = <<>> /\ encoded = TRUE /\ urn = Nothing
    /\ other_string = <<>> /\ other = Nothing

\* NSIdentifier(val)
NewNSIdentifier ==
    /\ nid = Nothing
    /\ \E val \in NidInputs :
            /\ nid_raw' = val
            /\ nid' = NSIdentifier(val)
            /\ UNCHANGED <<nss_raw, nss_encoded, nss, rqf_args, rqf, urn_string,
                           encoded, urn, other_string, other>>

\* NSSString(val, encoded)
NewNSSString ==
    /\ nss = Nothing
    /\ \E val \in NssInputs, enc \in BOOLEAN :
            /\ nss_raw' = val
            /\ nss_encoded' = enc
            /\ nss' = NSSString(val, enc)
            /\ UNCHANGED <<nid_raw, nid, rqf_args, rqf, urn_string, encoded, urn,
                           other_string, other>>

\* RQFComponent(resolution_string, query_string, fragment)
NewRQFComponent ==
    /\ rqf = Nothing
    /\ \E r \in QsInputs, q \in QsInputs, f \in FragmentInputs :
            /\ rqf_args' = <<r, q, f>>
            /\ rqf' = RQFComponent(r, q, f)
            /\ UNCHANGED <<nid_raw, nid, nss_raw, nss_encoded, nss, urn_string,
                           encoded, urn, other_string, other>>

\* URN8141.from_string(s).rqf_component: the RQFComponent from_string builds
ParsedRQFComponent ==
    /\ rqf = Nothing
    /\ \E s \in RqfUrnInputs :
            /\ ~IsError(from_string(s, TRUE))
            /\ urn_string' = s
            /\ encoded' = TRUE
            /\ urn' = from_string(s, TRUE)
            /\ rqf_args' = <<>>
            /\ rqf' = from_string(s, TRUE).rqf
            /\ UNCHANGED <<nid_raw, nid, nss_raw, nss_encoded, nss, other_string,
                           other>>

\* URN8141.from_string(urn_string, encoded) on one of the inputs S, with
\* one of the flags E
FromString(S, E) ==
    /\ urn = Nothing
    /\ \E s \in S, enc \in E :
            /\ urn_string' = s
            /\ encoded' = enc
            /\ urn' = from_string(s, enc)
            /\ UNCHANGED <<nid_raw, nid, nss_raw, nss_encoded, nss, rqf_args, rqf,
                           other_string, other>>

\* from_string(s), encoded left at its default True
FromUrnString == FromString(UrnInputs, {TRUE})

\* from_string(s, encoded=False)
FromDecodedUrnString == FromString(DecodedUrnInputs, {FALSE})

\* URN8141.from_string(str(urn)): the textual form of a URN that was parsed
\* with encoded=True, parsed again; the object it came from is kept as the
\* other one.
Reparse ==
    /\ urn # Nothing /\ ~IsError(urn) /\ encoded
    /\ other = Nothing
    /\ urn_string' = URN8141_repr(urn)
    /\ urn' = from_string(URN8141_repr(urn), TRUE)
    /\ other_string' = urn_string
    /\ other' = urn
    /\ UNCHANGED <<nid_raw, nid, nss_raw, nss_encoded, nss, rqf_args, rqf,
                   encoded>>

\* The two operands of ==, both parsed by from_string (encoded=True)
ParseLeft ==
    /\ urn = Nothing
    /\ \E s \in EqInputs :
            /\ urn_string' = s
            /\ encoded' = TRUE
            /\ urn' = from_string(s, TRUE)
            /\ UNCHANGED <<nid_raw, nid, nss_raw, nss_encoded, nss, rqf_args, rqf,
                           other_string, other>>

ParseRight ==
    /\ urn # Nothing /\ ~IsError(urn) /\ other = Nothing
    /\ \E s \in EqInputs :
            /\ other_string' = s
            /\ other' = from_string(s, TRUE)
            /\ UNCHANGED <<nid_raw, nid, nss_raw, nss_encoded, nss, rqf_args, rqf,
                           urn_string, encoded, urn>>

NextNID == NewNSIdentifier
SpecNID == Init /\ [][NextNID]_vars

NextNSS == NewNSSString
SpecNSS == Init /\ [][NextNSS]_vars

NextRQF == NewRQFComponent \/ ParsedRQFComponent
SpecRQF == Init /\ [][NextRQF]_vars

NextURN == FromUrnString \/ FromDecodedUrnString
SpecURN == Init /\ [][NextURN]_vars

NextReparse == FromUrnString \/ Reparse
SpecReparse == Init /\ [][NextReparse]_vars

NextEq == ParseLeft \/ ParseRight
SpecEq == Init /\ [][NextEq]_vars

Next == NextNID \/ NextNSS \/ NextRQF \/ NextURN \/ NextReparse \/ NextEq
Spec == Init /\ [][Next]_vars

----------------------------------------------------------------------------
(* Properties.                                                             *)

UrnPrefix == Str(<<"u", "r", "n", ":">>)
EmptyRQF  == RQFComponent(<<>>, <<>>, <<>>)

\* The text that from_string hands to NSSString, and the text it hands to
\* _parse_rqf_component.
NssText(text) ==
    LET p == ExtractSpecificPart(text)
    IN  Slice(p, 0, get_nss_indices(p)[4])
RqfText(text) ==
    LET p == ExtractSpecificPart(text)
    IN  SliceFrom(p, get_nss_indices(p)[4])

Parsed   == urn # Nothing /\ ~IsError(urn)
Min(S)   == CHOOSE x \in S : \A y \in S : x <= y

(* C1, as stated: for every string that from_string (encoded=True)        *)
(* accepts, str(from_string(s)) is exactly s.                              *)
C1_ExactRoundTrip ==
    (Parsed /\ encoded) => URN8141_repr(urn) = urn_string

(* C1, amended: for every string s that from_string (encoded=True)        *)
(* accepts, str(from_string(s)) is 'urn:' + NID + ':' + NSS + the          *)
(* serialised RQF component, and it is exactly s if and only if s starts   *)
(* with 'urn:', does not end with '#', and the RQF suffix of s is already  *)
(* the serialised form of the component parsed from it.                    *)
C1_RoundTripWhenCanonical ==
    (Parsed /\ encoded) =>
        /\ URN8141_repr(urn) =
               UrnPrefix \o ExtractNid(urn_string) \o <<Colon>>
               \o NssText(urn_string) \o RQFComponent_repr(urn.rqf)
        /\ URN8141_repr(urn) = urn_string
           <=> /\ StartsWith(urn_string, UrnPrefix)
               /\ urn_string[Len(urn_string)] # Hash
               /\ RQFComponent_repr(urn.rqf) = RqfText(urn_string)

\* A URN with a query component whose text came back unchanged.
C1_Witness ==
    /\ Parsed /\ encoded
    /\ urn.rqf.query # <<>>
    /\ URN8141_repr(urn) = urn_string

(* C2: two URN8141 values are equal iff their NIDs are equal              *)
(* (case-sensitive) and their encoded NSSs are equal; the RQF component    *)
(* takes no part: URNs parsed from strings with the same NID and NSS text  *)
(* are equal whatever their RQF suffixes, all others are unequal.          *)
C2_EqualityIgnoresRQF ==
    (Parsed /\ other # Nothing /\ ~IsError(other)) =>
        /\ URN8141_eq(urn, other)
           <=> /\ urn.nid.value = other.nid.value
               /\ urn.nss.encoded = other.nss.encoded
        /\ URN8141_eq(urn, other)
           <=> /\ ExtractNid(urn_string) = ExtractNid(other_string)
               /\ NssText(urn_string) = NssText(other_string)

\* Two equal URNs whose RQF components differ.
C2_Witness ==
    /\ Parsed /\ other # Nothing /\ ~IsError(other)
    /\ URN8141_eq(urn, other)
    /\ ~RQFComponent_eq(urn.rqf, other.rqf)

(* C3: from_string fails exactly when the scheme check fails, or           *)
(* NSIdentifier rejects the extracted NID, or NSSString rejects the        *)
(* extracted NSS; the error is always InvalidURNFormatError; a suffix that *)
(* RQF_PATTERN does not match gives the empty RQF component, no error.     *)
C3_FailsOnlyOnSchemeNidNss ==
    urn # Nothing =>
        /\ IsError(urn)
           <=> \/ ~SchemeCheck(urn_string)
               \/ IsError(NSIdentifier(ExtractNid(urn_string)))
               \/ IsError(NSSString(NssText(urn_string), encoded))
        /\ IsError(urn) => urn = Raise("InvalidURNFormatError")
        /\ (~IsError(urn) /\ ~RQF_PATTERN(RqfText(urn_string)).matched)
           => urn.rqf = EmptyRQF

\* A URN returned for a string whose non-empty suffix the pattern rejects.
C3_Witness ==
    /\ Parsed /\ encoded
    /\ RqfText(urn_string) # <<>>
    /\ ~RQF_PATTERN(RqfText(urn_string)).matched
    /\ urn.rqf = EmptyRQF

\* The NID grammar: 2 to 32 characters, the first an ASCII letter or digit,
\* every other one an ASCII letter, digit or hyphen.
NidGrammar(raw) ==
    /\ Len(raw) \in 2..32
    /\ IsDigit(raw[1]) \/ IsAsciiAlpha(raw[1])
    /\ \A i \in 2..Len(raw) :
          IsDigit(raw[i]) \/ IsAsciiAlpha(raw[i]) \/ raw[i] = Hyphen

(* C4: NSIdentifier(raw) succeeds iff raw is 2 to 32 characters long, its  *)
(* first character an ASCII letter or digit and every other one an ASCII   *)
(* letter, digit or hyphen; otherwise it raises InvalidURNFormatError; on  *)
(* success the stored value and the textual form are raw unchanged.        *)
C4_NidAcceptedIffGrammar ==
    nid # Nothing =>
        /\ ~IsError(nid) <=> NidGrammar(nid_raw)
        /\ IsError(nid) => nid = Raise("InvalidURNFormatError")
        /\ ~IsError(nid) => nid.value = nid_raw /\ NSIdentifier_repr(nid) = nid_raw

\* A pchar of the NSS grammar at 0-based position i: its length, 0 if none.
GrammarPchar(s, i) ==
    IF i >= Len(s) THEN 0
    ELSE IF \/ IsAsciiAlpha(s[i + 1]) \/ IsDigit(s[i + 1])
            \/ s[i + 1] \in Unreserved \cup SubDelims \cup {Colon, AtSign}
    THEN 1
    ELSE IF s[i + 1] = Percent /\ i + 3 <= Len(s)
            /\ IsHexDigit(s[i + 2]) /\ IsHexDigit(s[i + 3])
    THEN 3
    ELSE 0

RECURSIVE GrammarTail(_, _)
GrammarTail(s, i) ==
    \/ i = Len(s)
    \/ /\ i < Len(s)
       /\ \/ GrammarPchar(s, i) > 0 /\ GrammarTail(s, i + GrammarPchar(s, i))
          \/ s[i + 1] \in {Slash, QMark} /\ GrammarTail(s, i + 1)

\* The NSS grammar: a pchar, then pchars, '/' and '?' to the end.
NssGrammar(s) == GrammarPchar(s, 0) > 0 /\ GrammarTail(s, GrammarPchar(s, 0))

(* C5: every NSSString constructed successfully, in either mode, has an    *)
(* encoded form that is non-empty and fully matches the NSS grammar.       *)
C5_EncodedFormMatchesGrammar ==
    (nss # Nothing /\ ~IsError(nss)) =>
        Len(nss.encoded) > 0 /\ NssGrammar(nss.encoded)

(* C6: for every decoded text t, NSSString(t, encoded=False) has           *)
(* decoded == t, percent-decoding its encoded form gives t, and            *)
(* NSSString(its encoded form, encoded=True), when accepted, has           *)
(* decoded == t.                                                           *)
C6_PercentRoundTrip ==
    (nss # Nothing /\ ~nss_encoded) =>
        /\ ~IsError(nss)
        /\ NSSString_decoded(nss) = nss_raw
        /\ unquote(NSSString_repr(nss)) = nss_raw
        /\ ~IsError(NSSString(nss.encoded, TRUE))
           => NSSString_decoded(NSSString(nss.encoded, TRUE)) = nss_raw

\* A decoded text holding '%' and a character that must be escaped, whose
\* encoded form is accepted again.
C6_Witness ==
    /\ nss # Nothing /\ ~nss_encoded
    /\ \E i \in 1..Len(nss_raw) : nss_raw[i] = Percent
    /\ \E i \in 1..Len(nss_raw) : nss_raw[i] >= 128
    /\ ~IsError(NSSString(nss.encoded, TRUE))
    /\ NSSString_decoded(NSSString(nss.encoded, TRUE)) = nss_raw

IsEmptyStr(x) == x = None \/ x = <<>>

(* C7: the serialisation of every RQFComponent, built from three strings   *)
(* or by from_string, is '?+' + encoded resolution map if non-empty, then  *)
(* '?=' + encoded query map if non-empty, then '#' + fragment if           *)
(* non-empty, the maps percent-encoded with no '+' and no space; it is     *)
(* empty exactly when the emptiness predicate holds, and the predicate     *)
(* returns true iff all three parts are empty.                             *)
C7_SerialisationAndEmptiness ==
    rqf # Nothing =>
        /\ RQFComponent_repr(rqf) =
               (IF rqf.resolution # <<>>
                THEN <<QMark, Plus>> \o urlencode(rqf.resolution) ELSE <<>>)
               \o (IF rqf.query # <<>>
                   THEN <<QMark, Equals>> \o urlencode(rqf.query) ELSE <<>>)
               \o (IF ~IsEmptyStr(rqf.fragment)
                   THEN <<Hash>> \o rqf.fragment ELSE <<>>)
        /\ \A m \in {urlencode(rqf.resolution), urlencode(rqf.query)} :
              \A i \in 1..Len(m) : m[i] \notin {Plus, Space}
        /\ RQFComponent_empty(rqf) =
               Returned(/\ rqf.resolution = <<>> /\ rqf.query = <<>>
                        /\ IsEmptyStr(rqf.fragment))
        /\ RQFComponent_repr(rqf) = <<>>
           <=> RQFComponent_empty(rqf) = Returned(TRUE)

(* C8: for every string that passes the scheme check, the NID handed to    *)
(* NSIdentifier is the text between the first and second ':' and the       *)
(* specific part is the text after the second ':' with its trailing '#'    *)
(* characters removed.                                                     *)
C8_ExtractionFollowsColons ==
    (urn # Nothing /\ SchemeCheck(urn_string)) =>
        LET afterFirst  == SliceFrom(urn_string, FindOrEnd(urn_string, Colon) + 1)
            second      == FindOrEnd(afterFirst, Colon)
        IN  /\ ExtractNid(urn_string) = Slice(afterFirst, 0, second)
            /\ ExtractSpecificPart(urn_string)
                   = RStrip(SliceFrom(afterFirst, second + 1), Hash)

(* C9: the boundary eof of _get_nss_indices(p) is the minimum of len(p)    *)
(* and of the strictly positive right-most indices of '?+', '?=' and '#';  *)
(* a separator at index 0 is never the boundary; NSS = p[0:eof] and        *)
(* RQF = p[eof:], so NSS + RQF = p.                                        *)
C9_BoundaryIsMinimum ==
    (urn # Nothing /\ SchemeCheck(urn_string)) =>
        LET p   == ExtractSpecificPart(urn_string)
            eof == get_nss_indices(p)[4]
            positive == {i \in {RFind(p, <<QMark, Plus>>),
                                RFind(p, <<QMark, Equals>>),
                                RFind(p, <<Hash>>)} : i > 0}
        IN  /\ eof = Min({Len(p)} \cup positive)
            /\ eof = 0 => p = <<>>
            /\ Slice(p, 0, eof) \o SliceFrom(p, eof) = p
            /\ (~IsError(urn) /\ encoded) => NSSString_repr(urn.nss) = Slice(p, 0, eof)
            /\ ~IsError(urn) => urn.rqf = parse_rqf_component(SliceFrom(p, eof))

\* A specific part where the resolution separator tightens the boundary and
\* the query separator, further left, tightens it again.
C9_Witness ==
    /\ Parsed /\ encoded
    /\ LET idx == get_nss_indices(ExtractSpecificPart(urn_string))
       IN  0 < idx[2] /\ idx[2] < idx[1] /\ idx[4] = idx[2]

(* C10: for every string s accepted by from_string (encoded=True), with    *)
(* u = from_string(s) and c = str(u): from_string(c) succeeds, is equal to *)
(* u, and str(from_string(c)) == c.                                        *)
C10_CanonicalFormStable ==
    other # Nothing =>
        /\ ~IsError(urn)
        /\ URN8141_eq(urn, other)
        /\ URN8141_repr(urn) = urn_string

====
